---- MODULE Spec2Model ----
(***************************************************************************)
(* Kill-switch controller of Stardust-Tunnel-VPN/core.                     *)
(*                                                                         *)
(* enable  = backend/scripts/bash/mac_os/enable_kill_switch.sh             *)
(* legacy  = backend/scripts/bash/enable_kill_switch.sh                    *)
(* disable = disable_kill_switch.sh (unnamed/part_002)                     *)
(*                                                                         *)
(* The packet filter (pf) is the resource the scripts act on; its loaded   *)
(* configuration, its enabled flag and the temporary rule file are state.  *)
(*                                                                         *)
(* The frontend (frontend/stardust/src) is modelled beside it: the         *)
(* connection modal, the servers store and list, and the dropdowns.        *)
(***************************************************************************)
EXTENDS Integers, Sequences, FiniteSets, TLC

VARIABLES
    route,      \* interface of the default IPv4 route, "" when there is none
    ifaces,     \* POINTOPOINT interfaces in OS order: [name, inet]
    dnsRaw,     \* nameserver column of `scutil --dns`, in output order
    pfEnabled,  \* pf is enabled
    pfRules,    \* configuration loaded in pf (options and rules, in order)
    PF_CONF,    \* temporary rule file of the latest enable: [exists, content]
    last,       \* record of the latest script run
    stable,     \* interfaces and DNS set are those the latest script run saw
    monitor,    \* Tunnel Monitor state
    watched,    \* tunnel interface the Monitor polls
    lastPoll,   \* result of the Monitor's latest poll since the activation
    reverts,    \* Reverts the Monitor invoked since the latest activation
    probe,      \* latest packet evaluated by pf: [valid, pkt, verdict]
    userAgent,          \* navigator.userAgent of the browser
    currentOs,          \* currentOsStore.currentOs: "", "mac" or "win"
    visible,            \* ServersList.isConnectionModalVisible, the modal's `visible`
    killSwitchEnabled,  \* value bound to the modal's killSwitchEnabled prop
    connected,          \* connectionStatusStore.connected
    reactiveText,       \* the modal's prompt
    sudoPassword,       \* the modal's password field
    operations,         \* performOperation calls in start order: [kind, pc, status]
    storing,            \* the modal's storeSudoPassword calls: "sent", "stored", "failed"
    requests,           \* HTTP requests that left the browser
    logs,               \* entries of the connection log
    servers,            \* serversStore.servers
    loading,            \* serversStore.loading
    error,              \* serversStore.error, "null" for null
    calls,              \* serversStore.fetchServers calls in issue order: [pc, response]
    isLoading,          \* ServersList.isLoading
    mounted,            \* ServersList has been mounted
    isOpen,             \* Dropdown.isOpen of each mounted dropdown
    dropdownId,         \* Dropdown.dropdownId of each mounted dropdown
    modelValue          \* value bound to each dropdown's modelValue

hostVars == <<route, ifaces, dnsRaw, pfEnabled, pfRules, PF_CONF, last, stable,
              monitor, watched, lastPoll, reverts, probe>>

modalVars == <<userAgent, currentOs, visible, killSwitchEnabled, connected,
               reactiveText, sudoPassword, operations, storing, requests, logs>>

listVars == <<servers, loading, error, calls, isLoading, mounted>>

dropdownVars == <<isOpen, dropdownId, modelValue>>

uiVars == <<modalVars, listVars, dropdownVars>>

vars == <<hostVars, uiVars>>

facts == <<route, ifaces, dnsRaw>>

----------------------------------------------------------------------------
(* Bounds of the model *)

MaxDns == 2      \* nameserver lines printed by scutil --dns

----------------------------------------------------------------------------
(* Addresses, interfaces, ports *)

Broadcast == "255.255.255.255"
MulticastNet == "224.0.0.0/4"
MulticastHost == "224.0.0.251"
RemoteIp == "203.0.113.9"
LocalIp == "10.8.0.2"
OtherHost4 == "93.184.216.34"
OtherHost6 == "2001:db8::1"
Dns4A == "1.1.1.1"
Dns4B == "8.8.8.8"
Dns6 == "2606:4700:4700::1111"

Addr4 == {Broadcast, MulticastHost, RemoteIp, LocalIp, OtherHost4, Dns4A, Dns4B}
Addr6 == {OtherHost6, Dns6}

DnsPool == {Dns4A, Dns4B}
DnsPool6 == {Dns4A, Dns6}

\* byte order of the address strings, the order `sort` puts them in
SortKey(a) ==
    CASE a = Dns4A -> 1
      [] a = Dns6 -> 2
      [] a = Dns4B -> 3
      [] OTHER -> 4

EtherIf == "en0"
PppIf == "ppp0"
UtunIf == "utun3"
Loopback == "lo0"
TunnelNames == {PppIf, UtunIf}
Routes == {"", EtherIf, PppIf}

\* first column of an interface's header line in `ifconfig -a`
HeaderToken(n) ==
    CASE n = PppIf -> "ppp0:"
      [] n = UtunIf -> "utun3:"
      [] OTHER -> n

\* sed 's/://'
StripColon(tok) ==
    CASE tok = "ppp0:" -> PppIf
      [] tok = "utun3:" -> UtunIf
      [] OTHER -> tok

\* fields that follow `inet` on the interface's inet line; <<>> = no inet line
InetP2P == <<LocalIp, "-->", RemoteIp, "netmask", "0xffffff00">>
InetPair == <<LocalIp, RemoteIp, "netmask", "0xffffff00">>
InetLocalOnly == <<LocalIp>>
InetNone == <<>>
InetShapes == {InetP2P, InetPair, InetLocalOnly, InetNone}

Field(s, i) == IF i <= Len(s) THEN s[i] ELSE ""

Range(s) == {s[i] : i \in 1..Len(s)}

SeqsUpTo(S, n) == UNION {[1..k -> S] : k \in 0..n}

Injective(s) == \A i, j \in 1..Len(s) : s[i] = s[j] => i = j

\* every table of POINTOPOINT interfaces over the names, in every OS order
TunnelTables(shapes) ==
    {t \in SeqsUpTo([name : TunnelNames, inet : shapes], Cardinality(TunnelNames)) :
        Injective([i \in 1..Len(t) |-> t[i].name])}

IfaceTables == TunnelTables(InetShapes)

\* tunnels that are up with both addresses, or have no inet line at all
UpOrBare == TunnelTables({InetP2P, InetNone})

----------------------------------------------------------------------------
(* Interface Resolver and DNS Set Collector (enable, steps 1-3) *)

\* awk '/interface: /{print $2}' over `route get 0.0.0.0`
PHY_IF == route

\* awk '/POINTOPOINT/{print $1}' over `ifconfig -a`
IFACES == [i \in 1..Len(ifaces) |-> HeaderToken(ifaces[i].name)]

\* awk '/inet /{print $2 " " $3 " " $4 " " $5}': "" when there is no inet line
InetLine(inet) == IF inet = <<>> THEN <<>> ELSE [k \in 1..4 |-> Field(inet, k)]

\* sed -nE 's/.*inet ([0-9\.]+) --> ([0-9\.]+).*/\2/p'
SedRemote(inet) ==
    IF /\ Len(inet) >= 3
       /\ inet[1] \in Addr4
       /\ inet[2] = "-->"
       /\ inet[3] \in Addr4
    THEN inet[3]
    ELSE ""

ParseRemote(inet) ==
    LET third == Field(InetLine(inet), 3)
    IN IF third = "netmask" \/ third = "" THEN SedRemote(inet) ELSE third

ParseLocal(inet) == Field(InetLine(inet), 1)

Qualifies(inet) ==
    /\ InetLine(inet) # <<>>
    /\ ParseLocal(inet) # ""
    /\ ParseRemote(inet) # ""

NoVpn == [VPN_IF |-> "", VPN_LOCAL_IP |-> "", VPN_REMOTE_IP |-> ""]

\* the for loop over $IFACES: the first interface that qualifies, then break
RECURSIVE DetectFrom(_, _)
DetectFrom(table, i) ==
    IF i > Len(table) THEN NoVpn
    ELSE IF Qualifies(table[i].inet)
         THEN [VPN_IF |-> StripColon(HeaderToken(table[i].name)),
               VPN_LOCAL_IP |-> ParseLocal(table[i].inet),
               VPN_REMOTE_IP |-> ParseRemote(table[i].inet)]
         ELSE DetectFrom(table, i + 1)

DetectVpn(table) == DetectFrom(table, 1)

RECURSIVE SortSet(_)
SortSet(S) ==
    IF S = {} THEN <<>>
    ELSE LET m == CHOOSE x \in S : \A y \in S : SortKey(x) <= SortKey(y)
         IN <<m>> \o SortSet(S \ {m})

\* `sort` without -u: the lines in sorted order, repeated lines kept
RECURSIVE SortKeepDup(_)
SortKeepDup(raw) ==
    IF raw = <<>> THEN <<>>
    ELSE LET i == CHOOSE k \in 1..Len(raw) :
                      \A j \in 1..Len(raw) : SortKey(raw[k]) <= SortKey(raw[j])
             rest == [k \in 1..(Len(raw) - 1) |-> IF k < i THEN raw[k] ELSE raw[k + 1]]
         IN <<raw[i]>> \o SortKeepDup(rest)

\* ... | sort -u, read line by line into DNS_SERVERS
SortUnique(raw) == SortSet(Range(raw))

DNS_SERVERS == SortUnique(dnsRaw)

----------------------------------------------------------------------------
(* Rule clauses.  proto, fromPort, toPort, icmpType: {} = not constrained; *)
(* on: "" = every interface; from, to: "any" = not constrained.            *)

Rule(action, quick, dir, on, af, proto, from, fromPort, to, toPort, icmpType) ==
    [action |-> action, quick |-> quick, dir |-> dir, on |-> on, af |-> af,
     proto |-> proto, from |-> from, fromPort |-> fromPort, to |-> to,
     toPort |-> toPort, icmpType |-> icmpType, keepState |-> action = "pass"]

SetOption(name, on) ==
    [action |-> name, quick |-> FALSE, dir |-> "any", on |-> on, af |-> "any",
     proto |-> {}, from |-> "any", fromPort |-> {}, to |-> "any",
     toPort |-> {}, icmpType |-> {}, keepState |-> FALSE]

TcpUdp == {"tcp", "udp"}

\* pass quick proto {tcp,udp} from any to $dnsip port 53 keep state
DnsRule(dnsip) ==
    Rule("pass", TRUE, "any", "", "any", TcpUdp, "any", {}, dnsip, {53}, {})

\* the for loop over "${DNS_SERVERS[@]}"; nothing but a comment when it is empty
DnsRules(dns) == [i \in 1..Len(dns) |-> DnsRule(dns[i])]

\* pass quick proto {tcp, udp} from any to any port 53 keep state
BlanketDnsRule ==
    Rule("pass", TRUE, "any", "", "any", TcpUdp, "any", {}, "any", {53}, {})

\* set block-policy drop / set skip on lo0 / block all / block out inet6
Header ==
    << SetOption("set block-policy drop", ""),
       SetOption("set skip", Loopback),
       Rule("block", FALSE, "any", "", "any", {}, "any", {}, "any", {}, {}),
       Rule("block", FALSE, "out", "", "inet6", {}, "any", {}, "any", {}, {}) >>

\* allowances whose DHCP rule lost its protocol and port lists
AllowancesNoDhcpPorts(int_if) ==
    << Rule("pass", FALSE, "any", "", "any", {}, "any", {}, Broadcast, {}, {}),
       Rule("pass", FALSE, "any", "", "any", {}, Broadcast, {}, "any", {}, {}),
       Rule("pass", FALSE, "any", "", "any", {"udp"}, "any", {}, MulticastNet, {}, {}),
       Rule("pass", FALSE, "any", "", "any", {"udp"}, MulticastNet, {}, "any", {}, {}),
       Rule("pass", FALSE, "any", int_if, "any", {}, "any", {}, "any", {}, {}),
       Rule("pass", FALSE, "any", int_if, "inet", {"icmp"}, "any", {}, "any", {}, {8}) >>

\* broadcast, multicast, DHCP and ICMP allowances
Allowances(int_if) ==
    << Rule("pass", FALSE, "any", "", "any", {}, "any", {}, Broadcast, {}, {}),
       Rule("pass", FALSE, "any", "", "any", {}, Broadcast, {}, "any", {}, {}),
       Rule("pass", FALSE, "any", "", "any", {"udp"}, "any", {}, MulticastNet, {}, {}),
       Rule("pass", FALSE, "any", "", "any", {"udp"}, MulticastNet, {}, "any", {}, {}),
       Rule("pass", FALSE, "any", int_if, "any", TcpUdp, "any", {67, 68}, "any", {67, 68}, {}),
       Rule("pass", FALSE, "any", int_if, "inet", {"icmp"}, "any", {}, "any", {}, {8}) >>

\* pass on $int_if proto {tcp, udp} to $vpn_remote_ip port { 500, 4500, 1701 }
IpsecRule(int_if, vpn_remote_ip) ==
    Rule("pass", FALSE, "any", int_if, "any", TcpUdp, "any", {}, vpn_remote_ip,
         {500, 4500, 1701}, {})

\* pass on $vpn_if all keep state
VpnRule(vpn_if) ==
    Rule("pass", FALSE, "any", vpn_if, "any", {}, "any", {}, "any", {}, {})

\* a rule file whose DNS allowance is the blanket one of the legacy script
PfConfigBlanketDns(int_if, vpn_if, vpn_remote_ip, dns) ==
    Header \o Allowances(int_if) \o <<BlanketDnsRule>>
        \o <<IpsecRule(int_if, vpn_remote_ip), VpnRule(vpn_if)>>

\* the rule file enable writes, macros expanded
PfConfig(int_if, vpn_if, vpn_remote_ip, dns) ==
    Header \o Allowances(int_if) \o DnsRules(dns)
        \o <<IpsecRule(int_if, vpn_remote_ip), VpnRule(vpn_if)>>

\* pass on $int_if proto {tcp, udp} to $vpn_ip keep state
LegacyServerRule(int_if, vpn_ip) ==
    Rule("pass", FALSE, "any", int_if, "any", TcpUdp, "any", {}, vpn_ip, {}, {})

\* the rule file the legacy enable writes, macros expanded
LegacyPfConfig(int_if, vpn_if, vpn_ip) ==
    Header \o <<BlanketDnsRule>> \o Allowances(int_if)
        \o <<LegacyServerRule(int_if, vpn_ip), VpnRule(vpn_if)>>

\* /etc/pf.conf as macOS ships it: anchors only, no filter rule of its own
DefaultPfConf == << SetOption("anchor com.apple/*", "") >>

----------------------------------------------------------------------------
(* Packet filter evaluation *)

AfOf(addr) == IF addr \in Addr6 THEN "inet6" ELSE "inet"

\* a rule with an address literal only matches packets of that family
RuleAf(r) ==
    IF r.af # "any" THEN r.af
    ELSE IF r.from # "any" THEN AfOf(r.from)
    ELSE IF r.to # "any" THEN AfOf(r.to)
    ELSE "any"

AddrMatches(spec, addr) ==
    \/ spec = "any"
    \/ spec = addr
    \/ spec = MulticastNet /\ addr = MulticastHost

PortMatches(ports, pkt, port) ==
    ports = {} \/ (pkt.proto \in TcpUdp /\ port \in ports)

Matches(r, pkt) ==
    /\ r.action \in {"pass", "block"}
    /\ r.on = "" \/ r.on = pkt.iface
    /\ r.dir = "any" \/ r.dir = pkt.dir
    /\ RuleAf(r) = "any" \/ RuleAf(r) = pkt.af
    /\ r.proto = {} \/ pkt.proto \in r.proto
    /\ AddrMatches(r.from, pkt.src)
    /\ AddrMatches(r.to, pkt.dst)
    /\ PortMatches(r.fromPort, pkt, pkt.sport)
    /\ PortMatches(r.toPort, pkt, pkt.dport)
    /\ r.icmpType = {} \/ (pkt.proto = "icmp" /\ pkt.icmp \in r.icmpType)

Skipped(rules, pkt) ==
    \E i \in 1..Len(rules) : rules[i].action = "set skip" /\ rules[i].on = pkt.iface

\* the last matching rule decides; a matching quick rule ends the evaluation
RECURSIVE EvalFrom(_, _, _, _)
EvalFrom(rules, pkt, i, verdict) ==
    IF i > Len(rules) THEN verdict
    ELSE IF Matches(rules[i], pkt)
         THEN IF rules[i].quick THEN rules[i].action
              ELSE EvalFrom(rules, pkt, i + 1, rules[i].action)
         ELSE EvalFrom(rules, pkt, i + 1, verdict)

Eval(rules, pkt) ==
    IF Skipped(rules, pkt) THEN "pass" ELSE EvalFrom(rules, pkt, 1, "pass")

----------------------------------------------------------------------------
(* Privileged pfctl invocations.  outcome: "ok"; "denied" = sudo refuses   *)
(* the credential and pfctl does not run; "loadfail" = pfctl runs, -Fa     *)
(* flushes, the rule file is not loaded, the remaining options still run.  *)

Outcomes == {"ok", "denied", "loadfail"}

\* pfctl -f <file> -E: a load that keeps what was loaded before it
LoadEnableNoFlush(pf, file, outcome) ==
    CASE outcome = "ok" -> [enabled |-> TRUE, rules |-> pf.rules \o file]
      [] outcome = "loadfail" -> [enabled |-> TRUE, rules |-> pf.rules]
      [] OTHER -> pf

\* sudo pfctl -Fa -f <file> -E
FlushLoadEnable(pf, file, outcome) ==
    CASE outcome = "ok" -> [enabled |-> TRUE, rules |-> file]
      [] outcome = "loadfail" -> [enabled |-> TRUE, rules |-> <<>>]
      [] OTHER -> pf

\* sudo pfctl -d
PfDisable(pf, outcome) ==
    IF outcome = "ok" THEN [pf EXCEPT !.enabled = FALSE] ELSE pf

\* sudo pfctl -Fa -f "$PF_MAIN_CONF"
FlushLoad(pf, file, outcome) ==
    CASE outcome = "ok" -> [pf EXCEPT !.rules = file]
      [] outcome = "loadfail" -> [pf EXCEPT !.rules = <<>>]
      [] OTHER -> pf

PF_MAIN_CONF == DefaultPfConf

pfNow == [enabled |-> pfEnabled, rules |-> pfRules]

NoFile == [exists |-> FALSE, content |-> <<>>]

\* how a run ended, as the run after it finds things
Ended(r) ==
    CASE r.op = "none" -> "none"
      [] r.op = "crash" -> "crash"
      [] r.op = "disable" ->
            IF r.out1 = "ok" /\ r.out2 = "ok" THEN "disable-ok" ELSE "disable-failed"
      [] r.op = "legacy" -> IF r.out1 = "ok" THEN "legacy-ok" ELSE "legacy-failed"
      [] r.wrote -> IF r.out1 = "ok" THEN "enable-ok" ELSE "enable-apply-failed"
      [] OTHER -> "enable-detect-failed"

\* what one script run did and reported; after says what run it followed
Run(op, by, exit, msg, sudo, wrote, out1, out2) ==
    [op |-> op, by |-> by, exit |-> exit, msg |-> msg, sudo |-> sudo,
     wrote |-> wrote, out1 |-> out1, out2 |-> out2, after |-> Ended(last)]

NoRun ==
    [op |-> "none", by |-> "none", exit |-> 0, msg |-> "", sudo |-> 0,
     wrote |-> FALSE, out1 |-> "none", out2 |-> "none", after |-> "none"]

----------------------------------------------------------------------------
(* Tunnel Monitor bookkeeping *)

monVars == <<monitor, watched, lastPoll, reverts>>

Present(name) == \E i \in 1..Len(ifaces) : ifaces[i].name = name

\* Inactive -> Armed -> Active once the load is confirmed
Activate(vpn_if) ==
    /\ monitor' = "Active"
    /\ watched' = vpn_if
    /\ lastPoll' = "none"
    /\ reverts' = 0

\* the Monitor task keeps polling
KeepMonitor == UNCHANGED monVars

\* the Monitor task is cancelled
CancelMonitor ==
    /\ monitor' = "Inactive"
    /\ watched' = ""
    /\ lastPoll' = "none"
    /\ reverts' = 0

\* disable has run `pfctl -d` and not yet the reload of the default file
UserReverting == last.op = "disable" /\ last.by = "user" /\ last.sudo = 1

\* the Monitor has run `pfctl -d` and not yet the reload of the default file
MonitorReverting == monitor = "Reverted" /\ reverts = 1

\* no advisory lock at all: the scripts as they are, run side by side
NoLock == TRUE

\* Apply and Revert are serialized by one advisory lock: the Monitor holds it
\* from the poll that decides a Revert, disable from its first command
LockFree == monitor # "Reverted" /\ ~UserReverting

Record(run) ==
    /\ last' = run
    /\ stable' = TRUE

----------------------------------------------------------------------------
(* enable: mac_os/enable_kill_switch.sh *)

\* exit 1 right after the route query
EnableNoRoute ==
    /\ LockFree
    /\ PHY_IF = ""
    /\ Record(Run("enable", "user", 1, "NoRouteFound", 0, FALSE, "none", "none"))
    /\ UNCHANGED <<facts, pfEnabled, pfRules, PF_CONF, monVars, probe, uiVars>>

\* an enable that creates its rule file before it looks for the tunnel
EnableNoTunnelAfterMktemp ==
    /\ LockFree
    /\ PHY_IF # ""
    /\ DetectVpn(ifaces).VPN_IF = ""
    /\ PF_CONF' = [exists |-> TRUE, content |-> Header]
    /\ Record(Run("enable", "user", 1, "NoTunnelInterface", 0, TRUE, "none", "none"))
    /\ UNCHANGED <<facts, pfEnabled, pfRules, monVars, probe, uiVars>>

\* exit 1 after the loop over the POINTOPOINT interfaces, before mktemp
EnableNoTunnel ==
    /\ LockFree
    /\ PHY_IF # ""
    /\ DetectVpn(ifaces).VPN_IF = ""
    /\ Record(Run("enable", "user", 1, "NoTunnelInterface", 0, FALSE, "none", "none"))
    /\ UNCHANGED <<facts, pfEnabled, pfRules, PF_CONF, monVars, probe, uiVars>>

\* mktemp, the rule file, then sudo pfctl -Fa -f "$PF_CONF" -E || exit 1
EnableApply(outcome) ==
    /\ LockFree
    /\ PHY_IF # ""
    /\ DetectVpn(ifaces).VPN_IF # ""
    /\ LET vpn == DetectVpn(ifaces)
           file == PfConfig(PHY_IF, vpn.VPN_IF, vpn.VPN_REMOTE_IP, DNS_SERVERS)
           pf == FlushLoadEnable(pfNow, file, outcome)
       IN /\ PF_CONF' = [exists |-> TRUE, content |-> file]
          /\ pfEnabled' = pf.enabled
          /\ pfRules' = pf.rules
          /\ Record(Run("enable", "user", IF outcome = "ok" THEN 0 ELSE 1,
                        IF outcome = "ok" THEN "Activated" ELSE "LoadFailed",
                        1, TRUE, outcome, "none"))
          /\ IF outcome = "ok"
             THEN Activate(vpn.VPN_IF)
             ELSE UNCHANGED monVars
    /\ UNCHANGED <<facts, probe, uiVars>>

----------------------------------------------------------------------------
(* legacy enable: enable_kill_switch.sh, no check of what it detected *)

\* awk '/POINTOPOINT/{print $1; exit}': the header token, colon included
LegacyVpnIf == IF Len(IFACES) = 0 THEN "" ELSE IFACES[1]

\* pfctl cannot parse a rule whose interface or host is the empty string
WellFormed(int_if, vpn_if, vpn_ip) == int_if # "" /\ vpn_if # "" /\ vpn_ip # ""

\* vpn_server: CommRemoteAddress of `scutil --nc show`, "" when it prints none
LegacyEnable(vpn_server, outcome) ==
    /\ LockFree
    /\ outcome = "ok" => WellFormed(PHY_IF, LegacyVpnIf, vpn_server)
    /\ LET file == LegacyPfConfig(PHY_IF, LegacyVpnIf, vpn_server)
           pf == FlushLoadEnable(pfNow, file, outcome)
       IN /\ PF_CONF' = [exists |-> TRUE, content |-> file]
          /\ pfEnabled' = pf.enabled
          /\ pfRules' = pf.rules
          /\ Record(Run("legacy", "user", 0, "Activated", 1, TRUE, outcome, "none"))
          /\ IF outcome = "ok"
             THEN Activate(StripColon(LegacyVpnIf))
             ELSE UNCHANGED monVars
    /\ UNCHANGED <<facts, probe, uiVars>>

----------------------------------------------------------------------------
(* disable: disable_kill_switch.sh; neither command's status is looked at *)

DisableOutcomes == {"ok", "denied"}

\* sudo pfctl -d alone, the default configuration is not loaded again
RevertNoReload(pf, out1, out2) == PfDisable(pf, out1)

\* a Revert that needs what the process remembered of the Apply
RevertFromMemory(pf, out1, out2) ==
    IF last.op = "crash" THEN pf
    ELSE FlushLoad(PfDisable(pf, out1), PF_MAIN_CONF, out2)

\* sudo pfctl -d ; sudo pfctl -Fa -f "$PF_MAIN_CONF"
Revert(pf, out1, out2) == FlushLoad(PfDisable(pf, out1), PF_MAIN_CONF, out2)

\* a disable that looks for a tunnel first and does nothing without one
DisableRunIfTunnel(by, out1, out2) ==
    LET pf == IF Len(ifaces) > 0 THEN Revert(pfNow, out1, out2) ELSE pfNow
    IN /\ pfEnabled' = pf.enabled
       /\ pfRules' = pf.rules
       /\ Record(Run("disable", by, 0, "Disabled",
                     IF Len(ifaces) > 0 THEN 2 ELSE 0, FALSE, out1, out2))
       /\ UNCHANGED <<facts, PF_CONF, probe, uiVars>>

\* both commands run whatever the first one returned, then the echo, exit 0
DisableRun(by, out1, out2) ==
    LET pf == Revert(pfNow, out1, out2)
    IN /\ pfEnabled' = pf.enabled
       /\ pfRules' = pf.rules
       /\ Record(Run("disable", by, 0, "Disabled", 2, FALSE, out1, out2))
       /\ UNCHANGED <<facts, PF_CONF, probe, uiVars>>

\* explicit user disable: the Monitor task is cancelled as part of it
Disable(out1, out2) ==
    /\ LockFree
    /\ DisableRun("user", out1, out2)
    /\ CancelMonitor

\* disable, first command: sudo pfctl -d (the Monitor task is cancelled)
DisableBegin(out1) ==
    /\ LockFree
    /\ pfEnabled' = PfDisable(pfNow, out1).enabled
    /\ Record(Run("disable", "user", 0, "", 1, FALSE, out1, "none"))
    /\ CancelMonitor
    /\ UNCHANGED <<facts, pfRules, PF_CONF, probe, uiVars>>

\* disable, second command: sudo pfctl -Fa -f "$PF_MAIN_CONF", then the echo
DisableEnd(out2) ==
    /\ UserReverting
    /\ pfRules' = FlushLoad(pfNow, PF_MAIN_CONF, out2).rules
    /\ last' = [last EXCEPT !.sudo = 2, !.out2 = out2, !.msg = "Disabled"]
    /\ UNCHANGED <<facts, pfEnabled, PF_CONF, stable, monVars, probe, uiVars>>

----------------------------------------------------------------------------
(* Tunnel Monitor: polls the presence of the tunnel interface while Active *)

\* a poll that only reverts once the absence was seen twice in a row
MonitorPollConfirmTwice ==
    /\ monitor = "Active"
    /\ IF Present(watched)
       THEN /\ lastPoll' = "present"
            /\ monitor' = "Active"
       ELSE /\ lastPoll' = "absent"
            /\ monitor' = IF lastPoll = "absent" THEN "Reverted" ELSE "Active"
    /\ UNCHANGED <<facts, pfEnabled, pfRules, PF_CONF, last, stable, watched,
                   reverts, probe, uiVars>>

\* the interface query answered: absent -> Reverted, present -> still Active
MonitorPoll ==
    /\ monitor = "Active"
    /\ IF Present(watched)
       THEN /\ lastPoll' = "present"
            /\ monitor' = "Active"
       ELSE /\ lastPoll' = "absent"
            /\ monitor' = "Reverted"
    /\ UNCHANGED <<facts, pfEnabled, pfRules, PF_CONF, last, stable, watched,
                   reverts, probe, uiVars>>

\* a failed interface query taken for the tunnel's absence
MonitorPollErrorReverts ==
    /\ monitor = "Active"
    /\ lastPoll # "error"
    /\ lastPoll' = "error"
    /\ monitor' = "Reverted"
    /\ UNCHANGED <<facts, pfEnabled, pfRules, PF_CONF, last, stable, watched,
                   reverts, probe, uiVars>>

\* the interface query failed: retried at the next interval
MonitorPollError ==
    /\ monitor = "Active"
    /\ lastPoll # "error"
    /\ lastPoll' = "error"
    /\ UNCHANGED <<facts, pfEnabled, pfRules, PF_CONF, last, stable, monitor,
                   watched, reverts, probe, uiVars>>

\* Reverted: the Monitor invokes Revert, then returns to Inactive
MonitorRevert(out1, out2) ==
    /\ monitor = "Reverted"
    /\ DisableRun("monitor", out1, out2)
    /\ monitor' = "Inactive"
    /\ reverts' = reverts + 1
    /\ watched' = ""
    /\ lastPoll' = "none"

\* Revert of the Monitor, first command: sudo pfctl -d
MonitorRevertBegin(out1) ==
    /\ monitor = "Reverted"
    /\ reverts = 0
    /\ ~UserReverting
    /\ pfEnabled' = PfDisable(pfNow, out1).enabled
    /\ Record(Run("disable", "monitor", 0, "", 1, FALSE, out1, "none"))
    /\ reverts' = reverts + 1
    /\ UNCHANGED <<facts, pfRules, PF_CONF, monitor, watched, lastPoll, probe, uiVars>>

\* Revert of the Monitor, second command: the reload, then back to Inactive
MonitorRevertEnd(out2) ==
    /\ MonitorReverting
    /\ pfRules' = FlushLoad(pfNow, PF_MAIN_CONF, out2).rules
    /\ last' = [last EXCEPT !.op = "disable", !.by = "monitor", !.exit = 0,
                            !.sudo = 2, !.out2 = out2, !.msg = "Disabled"]
    /\ monitor' = "Inactive"
    /\ watched' = ""
    /\ lastPoll' = "none"
    /\ UNCHANGED <<facts, pfEnabled, PF_CONF, stable, reverts, probe, uiVars>>

----------------------------------------------------------------------------
(* The host: interfaces come and go, the resolver list changes *)

DnsRaws == SeqsUpTo(DnsPool, MaxDns)

RemoveAt(s, i) == [k \in 1..(Len(s) - 1) |-> IF k < i THEN s[k] ELSE s[k + 1]]

Reverse(s) == [k \in 1..Len(s) |-> s[Len(s) + 1 - k]]

\* the tunnel interface disappears
TunnelDown(i) ==
    /\ i \in 1..Len(ifaces)
    /\ ifaces' = RemoveAt(ifaces, i)
    /\ stable' = FALSE
    /\ UNCHANGED <<route, dnsRaw, pfEnabled, pfRules, PF_CONF, last, monVars, probe, uiVars>>

\* scutil lists the same resolvers in another order
DnsReorder ==
    /\ Reverse(dnsRaw) # dnsRaw
    /\ dnsRaw' = Reverse(dnsRaw)
    /\ UNCHANGED <<route, ifaces, pfEnabled, pfRules, PF_CONF, last, stable,
                   monVars, probe, uiVars>>

----------------------------------------------------------------------------
(* Frontend: connection modal (ConnectionModal.vue), kill-switch toggle    *)
(* (KillSwitchToggle.vue), stores and HTTP client (http_client.ts).        *)
(* An awaited HTTP request is in flight between the step that sends it and *)
(* the step that delivers its outcome.                                     *)

MaxOperations == 2   \* connect/disconnect operations started in a behaviour

\* navigator.userAgent, as the set of the substrings detectOs looks for
UserAgents == {{"Mac"}, {"Win"}, {}}

\* ua.indexOf(s) !== -1
IndexOfFound(ua, s) == s \in ua

\* detectOs: 'mac' for a Mac user agent, 'win' for every other one
DetectedOs(ua) ==
    IF IndexOfFound(ua, "Mac") THEN "mac"
    ELSE IF IndexOfFound(ua, "Win") THEN "win"
    ELSE "win"

CONNECT == "Do you want to connect to MyL2TP Connection?"
DISCONNECT == "Do you want to disconnect from MyL2TP Connection?"

\* bodies the backend answers GET /status with
StatusResponses == {"connected", "CONNECTED", "Disconnected"}

\* String.prototype.toLowerCase over the status bodies
ToLowerCase(s) ==
    CASE s \in {"Connected", "CONNECTED"} -> "connected"
      [] s = "Disconnected" -> "disconnected"
      [] OTHER -> s

\* what the user can type in the password field
Passwords == {"", "s3cret", "hunter2"}

\* a template that shows the toggle as it is for every OS
NeverDisabled == FALSE

\* <KillSwitchToggle is-disabled> in the v-else branch of currentOs === 'mac'
IsDisabled == currentOs # "mac"

\* const killSwitch = computed({ get: () => props.killSwitchEnabled ?? false })
killSwitch == killSwitchEnabled

\* currentOs.currentOs === 'mac' && killSwitch.value
isShowPasswordInput == currentOs = "mac" /\ killSwitch

\* v-if="!isConnected" on Connect, v-else on Disconnect
isConnected == connected

\* Boolean.prototype.toString
BooleanToString(b) == IF b THEN "true" ELSE "false"

Operation(kind) == [kind |-> kind, pc |-> "operation", status |-> ""]

AddLog(entry) == logs' = logs \cup {entry}

notModal == <<hostVars, listVars, dropdownVars>>

\* useCurrentOsStore().detectOs()
DetectOs ==
    /\ currentOs = ""
    /\ currentOs' = DetectedOs(userAgent)
    /\ UNCHANGED <<notModal, storing, userAgent, visible, killSwitchEnabled, connected,
                   reactiveText, sudoPassword, operations, requests, logs>>

\* ServersList.toggleConnectionModal, bound with v-model:visible
ToggleConnectionModal ==
    /\ visible' = ~visible
    /\ UNCHANGED <<notModal, storing, userAgent, currentOs, killSwitchEnabled, connected,
                   reactiveText, sudoPassword, operations, requests, logs>>

\* the close icon and the Cancel button: emit('update:visible', false)
OnClose ==
    /\ visible
    /\ visible' = FALSE
    /\ UNCHANGED <<notModal, storing, userAgent, currentOs, killSwitchEnabled, connected,
                   reactiveText, sudoPassword, operations, requests, logs>>

\* a click on the toggle; disabled, it has no handler and toggle() returns
\* (the emitted update:killSwitchEnabled is taken by a parent that binds the
\* prop with v-model; ServersList.vue passes no such prop and drops the event)
ToggleClick ==
    /\ visible
    /\ killSwitchEnabled' = IF IsDisabled THEN killSwitchEnabled ELSE ~killSwitch
    /\ UNCHANGED <<notModal, storing, userAgent, currentOs, visible, connected,
                   reactiveText, sudoPassword, operations, requests, logs>>

\* performOperation up to `await operation()`: the request leaves the browser
ConnectClick ==
    /\ visible
    /\ ~isConnected
    /\ Len(operations) < MaxOperations
    /\ reactiveText' = "Connecting..."
    /\ requests' = requests \cup
           {[url |-> "/connect", kill_switch_enabled |-> BooleanToString(killSwitch), sudo_password |-> ""]}
    /\ operations' = Append(operations, Operation("connect"))
    /\ UNCHANGED <<notModal, storing, userAgent, currentOs, visible, killSwitchEnabled,
                   connected, sudoPassword, logs>>

DisconnectClick ==
    /\ visible
    /\ isConnected
    /\ Len(operations) < MaxOperations
    /\ reactiveText' = "Disconnecting..."
    /\ requests' = requests \cup
           {[url |-> "/disconnect", kill_switch_enabled |-> "", sudo_password |-> ""]}
    /\ operations' = Append(operations, Operation("disconnect"))
    /\ UNCHANGED <<notModal, storing, userAgent, currentOs, visible, killSwitchEnabled,
                   connected, sudoPassword, logs>>

SuccessMessage(kind) ==
    IF kind = "connect" THEN "Connected successfully!" ELSE "Disconnected successfully!"

FailurePrefix(kind) ==
    IF kind = "connect" THEN "Failed to connect!" ELSE "Failed to disconnect!"

\* the POST answers 2xx; `finally` then sends GET /status
OperationSucceeds(i) ==
    /\ i \in 1..Len(operations)
    /\ operations[i].pc = "operation"
    /\ reactiveText' = SuccessMessage(operations[i].kind)
    /\ AddLog(IF operations[i].kind = "connect"
              THEN "Connected to the VPN server"
              ELSE "Disconnected from the VPN connection")
    /\ requests' = requests \cup
           {[url |-> "/status", kill_switch_enabled |-> "", sudo_password |-> ""]}
    /\ operations' = [operations EXCEPT ![i].pc = "status"]
    /\ UNCHANGED <<notModal, storing, userAgent, currentOs, visible, killSwitchEnabled,
                   connected, sudoPassword>>

\* the POST fails, with an error response or without any response
OperationFails(i, hasResponse) ==
    /\ i \in 1..Len(operations)
    /\ operations[i].pc = "operation"
    /\ reactiveText' = FailurePrefix(operations[i].kind)
    /\ IF hasResponse
       THEN UNCHANGED logs
       ELSE AddLog(IF operations[i].kind = "connect"
                   THEN "Failed to connect to the server"
                   ELSE "Failed to disconnect from the VPN connection")
    /\ requests' = requests \cup
           {[url |-> "/status", kill_switch_enabled |-> "", sudo_password |-> ""]}
    /\ operations' = [operations EXCEPT ![i].pc = "status"]
    /\ UNCHANGED <<notModal, storing, userAgent, currentOs, visible, killSwitchEnabled,
                   connected, sudoPassword>>

\* a status store that compares the body as it came
SetConnectedCaseSensitive(response) == connected' = (response = "connected")

\* this.setConnected(response.toLowerCase() === 'connected')
SetConnected(response) == connected' = (ToLowerCase(response) = "connected")

\* getVpnConnectionStatus resolves; setTimeout(..., delay) is scheduled
StatusSucceeds(i, response) ==
    /\ i \in 1..Len(operations)
    /\ operations[i].pc = "status"
    /\ SetConnected(response)
    /\ AddLog("Checked VPN status")
    /\ operations' = [operations EXCEPT ![i].pc = "timer", ![i].status = response]
    /\ UNCHANGED <<notModal, storing, userAgent, currentOs, visible, killSwitchEnabled,
                   reactiveText, sudoPassword, requests>>

\* checkVpnStatus throws inside `finally`: performOperation rejects there
StatusFails(i, hasResponse) ==
    /\ i \in 1..Len(operations)
    /\ operations[i].pc = "status"
    /\ IF hasResponse THEN UNCHANGED logs ELSE AddLog("Failed to check VPN status")
    /\ operations' = [operations EXCEPT ![i].pc = "rejected", ![i].status = "error"]
    /\ UNCHANGED <<notModal, storing, userAgent, currentOs, visible, killSwitchEnabled,
                   connected, reactiveText, sudoPassword, requests>>

\* the timer callback: onClose(), then the prompt for the store's state
TimerFires(i) ==
    /\ i \in 1..Len(operations)
    /\ operations[i].pc = "timer"
    /\ visible' = FALSE
    /\ reactiveText' = IF isConnected THEN DISCONNECT ELSE CONNECT
    /\ operations' = [operations EXCEPT ![i].pc = "closed"]
    /\ UNCHANGED <<notModal, storing, userAgent, currentOs, killSwitchEnabled, connected,
                   sudoPassword, requests, logs>>

\* the user edits the password field, shown while isShowPasswordInput
TypePassword(pw) ==
    /\ visible
    /\ isShowPasswordInput
    /\ pw # sudoPassword
    /\ sudoPassword' = pw
    /\ UNCHANGED <<notModal, storing, userAgent, currentOs, visible, killSwitchEnabled,
                   connected, reactiveText, operations, requests, logs>>

MaxStoring == 2   \* clicks on the check icon that call the client in a behaviour

\* a client that posts the password whatever the OS is
SudoStoreAlwaysSupported == TRUE

\* if (osStore.currentOs === 'mac')
SudoStoreSupported == currentOs = "mac"

SudoRequest(pw) ==
    [url |-> "/store_sudo_password", kill_switch_enabled |-> "", sudo_password |-> pw]

\* a click on the check icon: the modal's storeSudoPassword up to its await
StoreSudoPasswordClick ==
    /\ visible
    /\ isShowPasswordInput
    /\ Len(storing) < MaxStoring
    /\ IF sudoPassword = ""
       THEN UNCHANGED <<requests, storing, logs>>
       ELSE IF SudoStoreSupported
            THEN /\ requests' = requests \cup {SudoRequest(sudoPassword)}
                 /\ storing' = Append(storing, "sent")
                 /\ UNCHANGED logs
            ELSE /\ AddLog("Sudo password storage is not supported on this OS")
                 /\ storing' = Append(storing, "unsupported")
                 /\ UNCHANGED requests
    /\ UNCHANGED <<notModal, userAgent, currentOs, visible, killSwitchEnabled,
                   connected, reactiveText, sudoPassword, operations>>

\* the POST answers 2xx: the field is cleared
StoreSucceeds(i) ==
    /\ i \in 1..Len(storing)
    /\ storing[i] = "sent"
    /\ storing' = [storing EXCEPT ![i] = "stored"]
    /\ AddLog("Stored sudo password")
    /\ sudoPassword' = ""
    /\ UNCHANGED <<notModal, userAgent, currentOs, visible, killSwitchEnabled,
                   connected, reactiveText, operations, requests>>

\* the POST fails: the modal catches the error and keeps the field
StoreFails(i, hasResponse) ==
    /\ i \in 1..Len(storing)
    /\ storing[i] = "sent"
    /\ storing' = [storing EXCEPT ![i] = "failed"]
    /\ IF hasResponse THEN UNCHANGED logs ELSE AddLog("Failed to store sudo password")
    /\ UNCHANGED <<notModal, userAgent, currentOs, visible, killSwitchEnabled,
                   connected, reactiveText, sudoPassword, operations, requests>>

\* StardustHttpClient.storeSudoPassword called by any other caller, to its end
ClientStoreSudoPassword(pw, outcome) ==
    /\ IF SudoStoreSupported
       THEN /\ requests' = requests \cup {SudoRequest(pw)}
            /\ CASE outcome = "ok" -> AddLog("Stored sudo password")
                 [] outcome = "no response" -> AddLog("Failed to store sudo password")
                 [] OTHER -> UNCHANGED logs
       ELSE /\ AddLog("Sudo password storage is not supported on this OS")
            /\ UNCHANGED requests
    /\ UNCHANGED <<notModal, storing, userAgent, currentOs, visible, killSwitchEnabled,
                   connected, reactiveText, sudoPassword, operations>>

ModalIdle ==
    /\ currentOs = ""
    /\ visible = FALSE
    /\ killSwitchEnabled = FALSE
    /\ connected = FALSE
    /\ reactiveText = CONNECT
    /\ sudoPassword = ""
    /\ operations = <<>>
    /\ storing = <<>>
    /\ requests = {}
    /\ logs = {}

ListIdle ==
    /\ servers = <<>>
    /\ loading = FALSE
    /\ error = "null"
    /\ calls = <<>>
    /\ isLoading = FALSE
    /\ mounted = FALSE

DropdownIdle ==
    /\ isOpen = <<>>
    /\ dropdownId = <<>>
    /\ modelValue = <<>>

\* no page is open: the frontend keeps its initial state
FrontendIdle == userAgent = {} /\ ModalIdle /\ ListIdle /\ DropdownIdle

----------------------------------------------------------------------------
(* Frontend: servers store (serversStore.ts), servers list                 *)
(* (ServersList.vue) and its Refresh button (LoadingButton.vue).           *)

MaxCalls == 3   \* fetchServers calls issued in a behaviour

\* bodies the backend answers GET /vpn_servers_list with
ServerLists == {<<>>, <<"vpn1">>, <<"vpn2", "vpn1">>}

\* message of the Error getVpnServers throws
HttpErrorMessage(hasResponse) ==
    IF hasResponse THEN "HTTP error 500" ELSE "HTTP error: Network Error"

notList == <<hostVars, userAgent, currentOs, visible, killSwitchEnabled, connected,
             reactiveText, sudoPassword, operations, storing, requests, dropdownVars>>

ServersRequest == [url |-> "/vpn_servers_list", kill_switch_enabled |-> "", sudo_password |-> ""]

\* serversStore.fetchServers up to `await httpClient.getVpnServers(...)`
StoreFetchBegins(by) ==
    /\ Len(calls) < MaxCalls
    /\ loading' = TRUE
    /\ error' = "null"
    /\ requests' = requests \cup {ServersRequest}
    /\ calls' = Append(calls, [by |-> by, pc |-> "inflight", response |-> <<>>])
    /\ UNCHANGED servers

\* a caller other than the servers list calls the store's fetchServers
StoreFetchServers ==
    /\ StoreFetchBegins("store")
    /\ UNCHANGED <<hostVars, userAgent, currentOs, visible, killSwitchEnabled, connected,
                   reactiveText, sudoPassword, operations, storing, logs, dropdownVars,
                   isLoading, mounted>>

\* ServersList.fetchServers: isLoading.value = true, then the store's call
ListFetchServers ==
    /\ isLoading' = TRUE
    /\ StoreFetchBegins("list")

\* onMounted(() => fetchServers(...))
Mounted ==
    /\ ~mounted
    /\ mounted' = TRUE
    /\ ListFetchServers
    /\ UNCHANGED <<hostVars, userAgent, currentOs, visible, killSwitchEnabled, connected,
                   reactiveText, sudoPassword, operations, storing, logs, dropdownVars>>

\* a button that emits refresh on every click
EmitsAlways == TRUE

\* LoadingButton.onRefresh: if (!props.isLoading) emit('refresh')
EmitsRefresh == ~isLoading

\* a click on Refresh; the emitted event runs ServersList.onRefresh
RefreshClick ==
    /\ mounted
    /\ Len(calls) < MaxCalls
    /\ IF EmitsRefresh
       THEN ListFetchServers
       ELSE UNCHANGED <<listVars, requests>>
    /\ UNCHANGED <<hostVars, userAgent, currentOs, visible, killSwitchEnabled, connected,
                   reactiveText, sudoPassword, operations, storing, logs, dropdownVars,
                   mounted>>

\* `finally` of ServersList.fetchServers, run when the store's call returns
ListFetchReturns(i) ==
    IF calls[i].by = "list" THEN isLoading' = FALSE ELSE UNCHANGED isLoading

\* the GET answers 2xx: this.servers = response; finally this.loading = false
FetchResolves(i, response) ==
    /\ i \in 1..Len(calls)
    /\ calls[i].pc = "inflight"
    /\ servers' = response
    /\ loading' = FALSE
    /\ AddLog("Retrieved VPN servers list")
    /\ calls' = [calls EXCEPT ![i].pc = "resolved", ![i].response = response]
    /\ ListFetchReturns(i)
    /\ UNCHANGED <<notList, error, mounted>>

\* the GET fails: this.error = error.message; finally this.loading = false
FetchRejects(i, hasResponse) ==
    /\ i \in 1..Len(calls)
    /\ calls[i].pc = "inflight"
    /\ error' = HttpErrorMessage(hasResponse)
    /\ loading' = FALSE
    /\ IF hasResponse
       THEN UNCHANGED logs
       ELSE AddLog("Failed to retrieve VPN servers list")
    /\ calls' = [calls EXCEPT ![i].pc = "rejected"]
    /\ ListFetchReturns(i)
    /\ UNCHANGED <<notList, servers, mounted>>

----------------------------------------------------------------------------
(* Frontend: Dropdown.vue.  A click runs the handler of the element first  *)
(* and the document's click listeners of every mounted dropdown after it.  *)

MaxDropdowns == 3   \* mounted Dropdown instances

Dropdowns == 1..MaxDropdowns

\* values of Math.random().toString(36).substr(2, 9); two instances may draw the same
DropdownIds == {"k3x9", "p0q2", "z7m1"}

\* option values of a dropdown
Options == {"Speed", "Ping"}

\* a root element that is taken to contain every click target
ContainsAnything(d, target) == TRUE

\* dropdownRef.value.contains(e.target): the instances are siblings
Contains(d, target) == d = target

\* handleOtherDropdownOpen run by every instance for the event of id `id`
AfterOtherDropdownOpen(open, id) ==
    [d \in Dropdowns |-> IF dropdownId[d] # id THEN FALSE ELSE open[d]]

\* toggleDropdown of instance d
AfterToggle(open, d) ==
    LET heard == IF ~open[d] THEN AfterOtherDropdownOpen(open, dropdownId[d]) ELSE open
    IN  [heard EXCEPT ![d] = ~open[d]]

\* handleDocumentClick run by every instance for a click on `target`
AfterDocumentClick(open, target) ==
    [d \in Dropdowns |-> IF ~Contains(d, target) THEN FALSE ELSE open[d]]

\* a click on the header of dropdown d
ToggleDropdownClick(d) ==
    /\ isOpen' = AfterDocumentClick(AfterToggle(isOpen, d), d)
    /\ UNCHANGED <<hostVars, modalVars, listVars, dropdownId, modelValue>>

\* a click on an option of the open dropdown d: selectOption
SelectOptionClick(d, value) ==
    /\ isOpen[d]
    /\ modelValue' = [modelValue EXCEPT ![d] = value]
    /\ isOpen' = AfterDocumentClick([isOpen EXCEPT ![d] = FALSE], d)
    /\ UNCHANGED <<hostVars, modalVars, listVars, dropdownId>>

\* a click in the document outside every dropdown (target 0)
DocumentClick ==
    /\ isOpen' = AfterDocumentClick(isOpen, 0)
    /\ UNCHANGED <<hostVars, modalVars, listVars, dropdownId, modelValue>>

----------------------------------------------------------------------------
(* Specification *)

NoPacket ==
    [iface |-> "", dir |-> "in", af |-> "inet", proto |-> "", src |-> "",
     sport |-> 0, dst |-> "", dport |-> 0, icmp |-> 0]

NoProbe == [valid |-> FALSE, pkt |-> NoPacket, verdict |-> ""]

InitHost ==
    /\ route \in Routes
    /\ ifaces \in UpOrBare
    /\ dnsRaw \in DnsRaws

InitRest ==
    /\ pfEnabled \in BOOLEAN
    /\ pfRules = PF_MAIN_CONF
    /\ PF_CONF = NoFile
    /\ last = NoRun
    /\ stable = FALSE
    /\ monitor = "Inactive"
    /\ watched = ""
    /\ lastPoll = "none"
    /\ reverts = 0
    /\ probe = NoProbe
    /\ FrontendIdle

Init == InitHost /\ InitRest

\* the scripts as the user runs them, on a host that changes
Next ==
    \/ EnableNoRoute
    \/ EnableNoTunnel
    \/ \E outcome \in Outcomes : EnableApply(outcome)
    \/ \E out1, out2 \in DisableOutcomes : Disable(out1, out2)
    \/ \E i \in 1..Cardinality(TunnelNames) : TunnelDown(i)
    \/ DnsReorder

Spec == Init /\ [][Next]_vars

\* the same with the Tunnel Monitor running beside the user
MonitorNext ==
    \/ EnableNoTunnel
    \/ \E outcome \in Outcomes : EnableApply(outcome)
    \/ \E out1, out2 \in DisableOutcomes : Disable(out1, out2)
    \/ MonitorPoll
    \/ MonitorPollError
    \/ \E out1, out2 \in DisableOutcomes : MonitorRevert(out1, out2)
    \/ \E i \in 1..Cardinality(TunnelNames) : TunnelDown(i)
    \/ DnsReorder

\* hosts with a default route over the Ethernet interface
MonitorInit ==
    /\ route = EtherIf
    /\ ifaces \in UpOrBare
    /\ dnsRaw \in DnsRaws
    /\ InitRest
    /\ ~pfEnabled

----------------------------------------------------------------------------
(* Packets offered to the packet filter *)

PktIfaces == {EtherIf, PppIf, UtunIf, Loopback}

\* transport part of a packet: protocol, ports, ICMP type
Transports ==
    [proto : TcpUdp, sport : {67, 1024}, dport : {53, 68, 500, 4500, 1701, 80}, icmp : {0}]
    \cup [proto : {"icmp"}, sport : {0}, dport : {0}, icmp : {8, 0}]
    \cup [proto : {"esp"}, sport : {0}, dport : {0}, icmp : {0}]

Packet(iface, dir, af, src, dst, l4) ==
    [iface |-> iface, dir |-> dir, af |-> af, proto |-> l4.proto, src |-> src,
     sport |-> l4.sport, dst |-> dst, dport |-> l4.dport, icmp |-> l4.icmp]

Packets4 ==
    {Packet(i, d, "inet", src, dst, l4) :
        i \in PktIfaces, d \in {"in", "out"},
        src \in {Broadcast, MulticastHost, LocalIp},
        dst \in {Dns4A, Dns4B, RemoteIp, Broadcast, MulticastHost, OtherHost4},
        l4 \in Transports}

Packets6 ==
    {Packet(i, d, "inet6", OtherHost6, dst, l4) :
        i \in PktIfaces, d \in {"in", "out"}, dst \in {Dns6, OtherHost6},
        l4 \in {t \in Transports : t.proto # "icmp"}}

Packets == Packets4 \cup Packets6

\* pf, enabled, decides a packet against the loaded rules (one packet a run)
Probe(pkt) ==
    /\ pfEnabled
    /\ pfRules # <<>>
    /\ probe' = [valid |-> TRUE, pkt |-> pkt, verdict |-> Eval(pfRules, pkt)]
    /\ UNCHANGED <<facts, pfEnabled, pfRules, PF_CONF, last, stable, monVars, uiVars>>

\* hosts with one tunnel up, resolvers of both address families
PktInit ==
    /\ route \in {EtherIf, PppIf}
    /\ ifaces \in {<<[name |-> n, inet |-> InetP2P]>> : n \in TunnelNames}
    /\ dnsRaw \in SeqsUpTo(DnsPool6, MaxDns)
    /\ InitRest
    /\ ~pfEnabled

PktNext ==
    \/ last.op = "none" /\ \E outcome \in Outcomes : EnableApply(outcome)
    \/ ~probe.valid /\ \E pkt \in Packets : Probe(pkt)

PktSpec == PktInit /\ [][PktNext]_vars

\* every host, one run of either enable script
SynthNext ==
    \/ last.op = "none" /\ EnableNoRoute
    \/ last.op = "none" /\ EnableNoTunnel
    \/ last.op = "none" /\ \E outcome \in Outcomes : EnableApply(outcome)
    \/ last.op = "none" /\ \E server \in {"", RemoteIp}, outcome \in Outcomes :
            LegacyEnable(server, outcome)

\* every shape of inet line ifconfig can print for a POINTOPOINT interface
SynthInit ==
    /\ route \in Routes
    /\ ifaces \in IfaceTables
    /\ dnsRaw \in DnsRaws
    /\ InitRest

SynthSpec == SynthInit /\ [][SynthNext]_vars

\* the Monitor polls at a fixed interval and finishes a Revert it began
MonitorSpec ==
    /\ MonitorInit /\ [][MonitorNext]_vars
    /\ WF_vars(MonitorPoll)
    /\ WF_vars(\E out1, out2 \in DisableOutcomes : MonitorRevert(out1, out2))

\* the controlling process dies after a successful Apply: what it held in
\* memory (the Monitor task, the result of the Apply) is gone, the packet
\* filter and the files stay as they are
Crash ==
    /\ last.op = "enable" /\ last.out1 = "ok"
    /\ monitor = "Active"
    /\ CancelMonitor
    /\ last' = Run("crash", "none", 0, "", 0, FALSE, "none", "none")
    /\ UNCHANGED <<facts, pfEnabled, pfRules, PF_CONF, stable, probe, uiVars>>

\* enable and disable around a crash of the controlling process
CrashNext ==
    \/ \E outcome \in Outcomes : EnableApply(outcome)
    \/ \E out1, out2 \in DisableOutcomes : Disable(out1, out2)
    \/ \E i \in 1..Cardinality(TunnelNames) : TunnelDown(i)
    \/ Crash

CrashSpec == MonitorInit /\ [][CrashNext]_vars

\* the backend scripts are not run while the frontend is exercised
HostIdle ==
    /\ route = ""
    /\ ifaces = <<>>
    /\ dnsRaw = <<>>
    /\ pfEnabled = FALSE
    /\ pfRules = PF_MAIN_CONF
    /\ PF_CONF = NoFile
    /\ last = NoRun
    /\ stable = FALSE
    /\ monitor = "Inactive"
    /\ watched = ""
    /\ lastPoll = "none"
    /\ reverts = 0
    /\ probe = NoProbe

ModalInit ==
    /\ HostIdle
    /\ userAgent \in UserAgents
    /\ ModalIdle
    /\ ListIdle
    /\ DropdownIdle

OperationEnds ==
    \E i \in 1..MaxOperations, hasResponse \in BOOLEAN :
        OperationSucceeds(i) \/ OperationFails(i, hasResponse)

StatusEnds ==
    \E i \in 1..MaxOperations :
        \/ \E response \in StatusResponses : StatusSucceeds(i, response)
        \/ \E hasResponse \in BOOLEAN : StatusFails(i, hasResponse)

\* the connection modal in the browser, the backend answering as it likes
ModalNext ==
    \/ DetectOs
    \/ ToggleConnectionModal
    \/ OnClose
    \/ ToggleClick
    \/ ConnectClick
    \/ DisconnectClick
    \/ \E i \in 1..MaxOperations : OperationSucceeds(i)
    \/ \E i \in 1..MaxOperations, hasResponse \in BOOLEAN : OperationFails(i, hasResponse)
    \/ \E i \in 1..MaxOperations, response \in StatusResponses : StatusSucceeds(i, response)
    \/ \E i \in 1..MaxOperations, hasResponse \in BOOLEAN : StatusFails(i, hasResponse)
    \/ \E i \in 1..MaxOperations : TimerFires(i)

\* every request is answered and every timer fires
ModalSpec ==
    /\ ModalInit /\ [][ModalNext]_vars
    /\ WF_vars(OperationEnds)
    /\ WF_vars(StatusEnds)
    /\ WF_vars(\E i \in 1..MaxOperations : TimerFires(i))

\* the password field of the modal and the client's storeSudoPassword
PasswordNext ==
    \/ DetectOs
    \/ ToggleConnectionModal
    \/ ToggleClick
    \/ \E pw \in Passwords : TypePassword(pw)
    \/ StoreSudoPasswordClick
    \/ \E i \in 1..MaxStoring : StoreSucceeds(i)
    \/ \E i \in 1..MaxStoring, hasResponse \in BOOLEAN : StoreFails(i, hasResponse)
    \/ \E pw \in Passwords \ {""}, outcome \in {"ok", "no response", "error response"} :
            ClientStoreSudoPassword(pw, outcome)

PasswordSpec == ModalInit /\ [][PasswordNext]_vars

\* the servers list as the only caller of the store
ListNext ==
    \/ Mounted
    \/ RefreshClick
    \/ \E i \in 1..MaxCalls, response \in ServerLists : FetchResolves(i, response)
    \/ \E i \in 1..MaxCalls, hasResponse \in BOOLEAN : FetchRejects(i, hasResponse)

ListSpec == ModalInit /\ [][ListNext]_vars

\* fetchServers of the store called while earlier calls are in flight
StoreNext ==
    \/ StoreFetchServers
    \/ \E i \in 1..MaxCalls, response \in ServerLists : FetchResolves(i, response)
    \/ \E i \in 1..MaxCalls, hasResponse \in BOOLEAN : FetchRejects(i, hasResponse)

StoreSpec == ModalInit /\ [][StoreNext]_vars

\* the dropdowns mounted and closed, each with the id it drew
DropdownInit ==
    /\ HostIdle
    /\ userAgent = {}
    /\ ModalIdle
    /\ ListIdle
    /\ isOpen = [d \in Dropdowns |-> FALSE]
    /\ dropdownId \in [Dropdowns -> DropdownIds]
    /\ modelValue = [d \in Dropdowns |-> ""]

DropdownNext ==
    \/ \E d \in Dropdowns : ToggleDropdownClick(d)
    \/ \E d \in Dropdowns, value \in Options : SelectOptionClick(d, value)
    \/ DocumentClick

DropdownSpec == DropdownInit /\ [][DropdownNext]_vars

\* enable, disable and the Monitor's Revert, command by command
LockNext ==
    \/ \E outcome \in Outcomes : EnableApply(outcome)
    \/ \E out1 \in DisableOutcomes : DisableBegin(out1)
    \/ \E out2 \in DisableOutcomes : DisableEnd(out2)
    \/ MonitorPoll
    \/ \E out1 \in DisableOutcomes : MonitorRevertBegin(out1)
    \/ \E out2 \in DisableOutcomes : MonitorRevertEnd(out2)
    \/ \E i \in 1..Cardinality(TunnelNames) : TunnelDown(i)

LockSpec == MonitorInit /\ [][LockNext]_vars

----------------------------------------------------------------------------
(* Properties *)

\* the latest run was an enable whose rule file pf loaded
KillSwitchOn == last.op = "enable" /\ last.out1 = "ok"

\* a step that is one run of enable
EnableRan ==
    \/ EnableNoRoute
    \/ EnableNoTunnel
    \/ \E outcome \in Outcomes : EnableApply(outcome)

\* a step that is one run of disable, by the user or by the Monitor
DisableRan ==
    \/ \E out1, out2 \in DisableOutcomes : Disable(out1, out2)
    \/ \E out1, out2 \in DisableOutcomes : MonitorRevert(out1, out2)

IsCatchAll(r) ==
    /\ r.action = "block"
    /\ r.on = "" /\ r.dir = "any" /\ r.af = "any" /\ r.proto = {}
    /\ r.from = "any" /\ r.to = "any"

HasCatchAll(rules) == \E i \in 1..Len(rules) : IsCatchAll(rules[i])

\* the exceptions the policy is meant to let through besides the tunnel
Excepted(pkt, P, R, D) ==
    \/ pkt.proto \in {"tcp", "udp"} /\ pkt.dport = 53 /\ pkt.dst \in D
    \/ pkt.dst = Broadcast \/ pkt.src = Broadcast
    \/ pkt.proto = "udp" /\ (pkt.dst = MulticastHost \/ pkt.src = MulticastHost)
    \/ /\ pkt.proto \in {"tcp", "udp"}
       /\ pkt.sport \in 67..68 /\ pkt.dport \in 67..68
       /\ pkt.iface = P
    \/ pkt.proto = "icmp" /\ pkt.icmp = 8 /\ pkt.iface = P
    \/ /\ pkt.proto \in {"tcp", "udp"}
       /\ pkt.dst = RemoteIp /\ pkt.dst = R
       /\ pkt.dport \in {500, 4500, 1701}
       /\ pkt.iface = P

\* C1: under the policy enable loaded, an IPv4 packet on a non-loopback
\* interface passes only if it is on the tunnel interface or is one of the
\* listed exceptions (DNS to a collected resolver, broadcast, UDP multicast,
\* DHCP and ICMP echo request on the physical interface, IKE/NAT-T/L2TP to
\* the remote endpoint on the physical interface); anything else is blocked.
C1_NoLeak ==
    (/\ probe.valid
     /\ KillSwitchOn
     /\ probe.pkt.af = "inet"
     /\ probe.pkt.iface # Loopback
     /\ probe.verdict = "pass")
    => \/ probe.pkt.iface = ifaces[1].name
       \/ Excepted(probe.pkt, route, ifaces[1].inet[3], Range(dnsRaw))

\* a packet to an ordinary host, off the tunnel, that pf dropped
C1_Witness ==
    /\ probe.valid
    /\ KillSwitchOn
    /\ probe.pkt.af = "inet"
    /\ probe.pkt.iface = route
    /\ probe.pkt.iface # ifaces[1].name
    /\ probe.pkt.dst = OtherHost4
    /\ probe.pkt.proto = "tcp"
    /\ probe.verdict = "block"

\* C2: under the policy enable loaded, every outbound IPv6 packet on a
\* non-loopback interface is blocked, whatever its interface, protocol or
\* destination.
C2_Ipv6OutBlocked ==
    (/\ probe.valid
     /\ KillSwitchOn
     /\ probe.pkt.af = "inet6"
     /\ probe.pkt.dir = "out"
     /\ probe.pkt.iface # Loopback)
    => probe.verdict = "block"

\* a pass clause with no protocol list and no destination address
PassToAny(r) == r.action = "pass" /\ r.proto = {} /\ r.to = "any"

\* a pass clause with no protocol list and no address on either side
PassAll(r) == PassToAny(r) /\ r.from = "any"

\* the last clause of a policy, written from `pass on $vpn_if all keep state`
\* (the legacy script writes it with an empty $vpn_if when no tunnel is up)
FinalTunnelPass(policy, i) == i = Len(policy) /\ policy[i] = VpnRule(policy[i].on)

DnsClauses(policy) == {i \in 1..Len(policy) : 53 \in policy[i].toPort}

\* C4: for every DNS set D collected by enable, the empty one included, the
\* policy holds exactly |D| DNS clauses, one quick pass of TCP+UDP port 53
\* per address of D and restricted to it, and no pass clause for port 53 to
\* an arbitrary destination.
C4_OneDnsClausePerServer ==
    (last.op = "enable" /\ last.wrote) =>
        LET policy == PF_CONF.content
            D == Range(dnsRaw)
        IN /\ Cardinality(DnsClauses(policy)) = Cardinality(D)
           /\ \A d \in D : \E i \in DnsClauses(policy) : policy[i].to = d
           /\ \A i \in DnsClauses(policy) :
                 /\ policy[i].action = "pass"
                 /\ policy[i].quick
                 /\ policy[i].proto = {"tcp", "udp"}
                 /\ policy[i].toPort = {53}
                 /\ policy[i].to \in D

\* scutil listed the same resolver twice and enable wrote its policy
C4_Witness ==
    /\ last.op = "enable"
    /\ last.wrote
    /\ Len(dnsRaw) = 2
    /\ dnsRaw[1] = dnsRaw[2]
    /\ Cardinality(DnsClauses(PF_CONF.content)) = 1

\* C5: when enable finds no default route, or no tunnel interface with both
\* addresses, it fails with the matching detection error before any
\* mutation: no rule file written, no privileged command run, the packet
\* filter as it was before the call.
C5_DetectionAbortsFirst ==
    [][(/\ EnableRan
        /\ \/ route = ""
           \/ \A i \in 1..Len(ifaces) : ~Qualifies(ifaces[i].inet))
       => /\ last'.exit = 1
          /\ last'.msg = IF route = "" THEN "NoRouteFound" ELSE "NoTunnelInterface"
          /\ ~last'.wrote
          /\ last'.sudo = 0
          /\ PF_CONF' = PF_CONF
          /\ pfEnabled' = pfEnabled
          /\ pfRules' = pfRules]_vars

\* enable ended on a missing tunnel although POINTOPOINT interfaces exist
C5_Witness ==
    /\ last.op = "enable"
    /\ last.msg = "NoTunnelInterface"
    /\ last.exit = 1
    /\ Len(ifaces) > 0
    /\ PF_CONF = NoFile

\* C6: when the flush-and-load command of Apply fails, the rules and the
\* enabled status of the packet filter are what they were before enable was
\* called, and the temporary rule file is gone.
C6_FailedApplyLeavesNothing ==
    [][(/\ EnableRan
        /\ last'.wrote
        /\ last'.out1 # "ok")
       => /\ pfRules' = pfRules
          /\ pfEnabled' = pfEnabled
          /\ ~PF_CONF'.exists]_vars

\* an ordinary outbound packet on the physical interface
WebPacket ==
    Packet(route, "out", "inet", LocalIp, OtherHost4,
           [proto |-> "tcp", sport |-> 1024, dport |-> 80, icmp |-> 0])

\* C7: after a successful enable followed by a successful disable, the
\* catch-all block is no longer loaded, ordinary outbound traffic on the
\* physical interface is not blocked, and the loaded configuration is the
\* default one.
C7_DisableRestoresDefault ==
    (/\ last.op = "disable"
     /\ last.out1 = "ok" /\ last.out2 = "ok"
     /\ last.after = "enable-ok")
    => /\ pfRules = PF_MAIN_CONF
       /\ ~HasCatchAll(pfRules)
       /\ ~pfEnabled
       /\ Eval(pfRules, WebPacket) = "pass"

\* a successful disable right after a successful enable
C7_Witness ==
    /\ last.op = "disable"
    /\ last.out1 = "ok" /\ last.out2 = "ok"
    /\ last.after = "enable-ok"
    /\ PF_CONF.exists
    /\ HasCatchAll(PF_CONF.content)

\* C8: disable with no kill-switch policy loaded (never enabled, after a
\* failed Apply, after an earlier disable) succeeds and leaves the packet
\* filter as it was.
C8_DisableNoOpWhenInactive ==
    [][(/\ DisableRan
        /\ last'.out1 = "ok" /\ last'.out2 = "ok"
        /\ ~HasCatchAll(pfRules))
       => /\ last'.exit = 0
          /\ pfEnabled' = pfEnabled
          /\ pfRules' = pfRules]_vars

\* C9: a second successful enable on unchanged facts writes the policy the
\* first one wrote, and after any successful enable the loaded rules are the
\* clauses of the latest policy and nothing else.
C9_EnableTwiceSamePolicy ==
    /\ [][(/\ EnableRan
           /\ last'.out1 = "ok"
           /\ KillSwitchOn
           /\ stable)
          => /\ PF_CONF'.content = PF_CONF.content
             /\ pfRules' = pfRules]_vars
    /\ [](KillSwitchOn =>
            /\ pfRules = PF_CONF.content
            /\ Cardinality({i \in 1..Len(pfRules) : IsCatchAll(pfRules[i])}) = 1)

\* enable succeeded twice in a row with every tunnel still up (DNS set and
\* interfaces as at the first call), scutil listing two resolvers
C9_Witness ==
    /\ KillSwitchOn
    /\ last.after = "enable-ok"
    /\ stable
    /\ Len(ifaces) = Cardinality(TunnelNames)
    /\ Cardinality(Range(dnsRaw)) = 2

SudoRan == <<pfEnabled, pfRules, last>>' # <<pfEnabled, pfRules, last>>

UserDisabled == last.op = "disable" /\ last.by = "user"

\* C13: an explicit disable cancels the Monitor as part of its Revert: from
\* the disable until the next enable the Monitor is Inactive, it takes no
\* poll and invokes no Revert, whether the tunnel interface is there or
\* not; the Revert of the disable is the only one.
C13_DisableCancelsMonitor ==
    /\ [](UserDisabled =>
            /\ monitor = "Inactive"
            /\ reverts = 0
            /\ ~ENABLED MonitorPoll
            /\ ~ENABLED (\E out1, out2 \in DisableOutcomes : MonitorRevert(out1, out2)))
    /\ [][UserDisabled =>
            /\ ~MonitorPoll
            /\ ~(\E out1, out2 \in DisableOutcomes : MonitorRevert(out1, out2))]_vars

\* the user disabled an active kill-switch and no tunnel is up any more
C13_Witness ==
    /\ UserDisabled
    /\ last.after = "enable-ok"
    /\ last.out1 = "ok" /\ last.out2 = "ok"
    /\ DetectVpn(ifaces).VPN_IF = ""
    /\ PF_CONF.exists

\* C14: an explicit disable of the user while the Monitor is Active is
\* possible whether the tunnel interface is present or not, runs both
\* commands of Revert (pf disabled and the default file loaded when they
\* succeed) and ends with the Monitor Inactive.
C14_DisableFromActive ==
    /\ [](monitor = "Active"
            => ENABLED (\E out1, out2 \in DisableOutcomes : Disable(out1, out2)))
    /\ [][(/\ monitor = "Active"
           /\ \E out1, out2 \in DisableOutcomes : Disable(out1, out2))
          => /\ monitor' = "Inactive"
             /\ last'.op = "disable" /\ last'.by = "user"
             /\ last'.sudo = 2
             /\ last'.out1 = "ok" => ~pfEnabled'
             /\ last'.out2 = "ok" => pfRules' = PF_MAIN_CONF]_vars

\* the user disabled an active kill-switch whose tunnels had all gone
C14_Witness ==
    /\ UserDisabled
    /\ last.after = "enable-ok"
    /\ last.out1 = "ok" /\ last.out2 = "ok"
    /\ ifaces = <<>>
    /\ monitor = "Inactive"
    /\ ~pfEnabled
    /\ pfRules = PF_MAIN_CONF

\* C15: in every reachable state the Monitor agrees with the packet filter:
\* it is Active only if the kill-switch policy is loaded and enabled and a
\* tunnel interface was found, and Inactive only if no kill-switch policy is
\* loaded, also after a failed Apply or a failed Revert.
C15_MonitorAgreesWithPf ==
    /\ monitor = "Active" => pfEnabled /\ HasCatchAll(pfRules) /\ watched # ""
    /\ monitor = "Inactive" => ~HasCatchAll(pfRules)

C17_RevertErrorReported ==
    last.op = "disable" =>
        /\ (last.out1 # "ok" \/ last.out2 # "ok")
              => last.exit = 4 /\ last.msg = "RevertError"
        /\ last.exit = 0 => last.out1 = "ok" /\ last.out2 = "ok"

\* C18: the result code of enable is 0 exactly on success, 1 when the
\* detection of an interface fails, 2 when the rule file cannot be loaded
\* and 3 when the credential is refused, so that the three kinds of failure
\* have different codes.
C18_EnableResultCodes ==
    last.op = "enable" =>
        /\ last.exit = 0 <=> last.out1 = "ok"
        /\ ~last.wrote => last.exit = 1
        /\ last.out1 = "loadfail" => last.exit = 2
        /\ last.out1 = "denied" => last.exit = 3

\* the interface has an inet line that starts with an IPv4 address
HasLocalAddress(inet) == Len(inet) > 0 /\ inet[1] \in Addr4

\* the interfaces of the table that have a local address, by position
WithLocalAddress == {i \in 1..Len(ifaces) : HasLocalAddress(ifaces[i].inet)}

\* the interface the policy of the latest enable passes everything on
SelectedTunnel == PF_CONF.content[Len(PF_CONF.content)].on

\* C19: with a default route, enable selects the first POINTOPOINT
\* interface, in the order the OS lists them, that has an assigned local
\* address, and fails with NoTunnelInterface exactly when none has one.
C19_FirstWithLocalAddress ==
    (last.op = "enable" /\ route # "") =>
        IF WithLocalAddress = {}
        THEN last.msg = "NoTunnelInterface"
        ELSE /\ last.msg # "NoTunnelInterface"
             /\ last.wrote
             /\ \E i \in WithLocalAddress :
                   /\ \A j \in WithLocalAddress : i <= j
                   /\ SelectedTunnel = ifaces[i].name

\* the first interface with a local address shows no peer address at all
OnlyLocalKnown ==
    /\ WithLocalAddress # {}
    /\ \E i \in WithLocalAddress :
          /\ \A j \in WithLocalAddress : i <= j
          /\ ifaces[i].inet = InetLocalOnly

\* the tunnel-establishment rule without a destination address
WideTunnelPortsRule(r) ==
    /\ r.action = "pass"
    /\ r.on = route
    /\ r.proto = {"tcp", "udp"}
    /\ r.to = "any"
    /\ r.toPort = {500, 4500, 1701}

\* C20: when the tunnel interface has a local address and its remote
\* endpoint cannot be resolved, enable still writes and loads a policy, and
\* the rule for ports 500, 4500 and 1701 is on the physical interface with
\* no destination address.
C20_WideRuleWithoutRemote ==
    (last.op = "enable" /\ route # "" /\ OnlyLocalKnown) =>
        /\ last.wrote
        /\ last.out1 = "ok" => last.exit = 0
        /\ \E i \in 1..Len(PF_CONF.content) : WideTunnelPortsRule(PF_CONF.content[i])

\* position of a clause's group in the order the specification fixes
ClauseRank(r) ==
    CASE r.action \in {"set block-policy drop", "set skip"} -> 1
      [] r.action = "block" -> 2
      [] r.action = "pass" /\ r.quick /\ r.toPort = {53} -> 3
      [] r.action = "pass" /\ Broadcast \in {r.from, r.to} -> 4
      [] r.action = "pass" /\ MulticastNet \in {r.from, r.to} -> 5
      [] r.action = "pass" /\ r.toPort = {67, 68} -> 6
      [] r.action = "pass" /\ r.icmpType = {8} -> 7
      [] r.action = "pass" /\ r.toPort = {500, 4500, 1701} -> 8
      [] OTHER -> 9

\* C21: the policy enable writes lists its clauses in the fixed order:
\* global defaults, the two blocks, the DNS clauses, broadcast, multicast,
\* DHCP, ICMP echo request, tunnel-establishment ports, and last the pass on
\* the tunnel interface.
C21_FixedClauseOrder ==
    (last.op = "enable" /\ last.wrote) =>
        /\ \A i, j \in 1..Len(PF_CONF.content) :
              i < j => ClauseRank(PF_CONF.content[i]) <= ClauseRank(PF_CONF.content[j])
        /\ ClauseRank(PF_CONF.content[Len(PF_CONF.content)]) = 9

\* the written policy has a clause whose destination is the remote endpoint
SynthesizedFor(R) ==
    /\ last.wrote
    /\ route # ""
    /\ \E i \in 1..Len(PF_CONF.content) : PF_CONF.content[i].to = R

\* C22: a policy synthesized for physical interface P and a tunnel with
\* remote endpoint R has a DHCP clause and an ICMP echo-request clause, each
\* on P only, the clause for ports 500, 4500 and 1701 on P to exactly R, and
\* a pass-all on a listed tunnel interface; every pass clause on P whose
\* destination is R is restricted to those three ports.
C22_ScopedToEndpoint ==
    SynthesizedFor(RemoteIp) =>
        LET policy == PF_CONF.content
            P == route
        IN  /\ \E i \in 1..Len(policy) : policy[i].toPort = {67, 68}
            /\ \A i \in 1..Len(policy) : policy[i].toPort = {67, 68} => policy[i].on = P
            /\ \E i \in 1..Len(policy) : policy[i].icmpType = {8}
            /\ \A i \in 1..Len(policy) : policy[i].icmpType = {8} => policy[i].on = P
            /\ \E i \in 1..Len(policy) : policy[i] = IpsecRule(P, RemoteIp)
            /\ \E i \in 1..Len(policy), k \in 1..Len(ifaces) :
                  policy[i] = VpnRule(ifaces[k].name)
            /\ \A i \in 1..Len(policy) :
                  (policy[i].action = "pass" /\ policy[i].on = P /\ policy[i].to = RemoteIp)
                      => policy[i].toPort = {500, 4500, 1701}

ConnectRequests == {r \in requests : r.url = "/connect"}

\* C23: while the detected OS is not mac, killSwitchEnabled is false and no
\* connect request that left the browser carries kill_switch_enabled=true,
\* whatever was clicked in the connection modal.
C23_NoKillSwitchOffMac ==
    currentOs # "mac" =>
        /\ ~killSwitchEnabled
        /\ \A r \in ConnectRequests : r.kill_switch_enabled # "true"

\* two connects were sent from a browser detected as not mac
C23_Witness ==
    /\ currentOs = "win"
    /\ Len(operations) = MaxOperations
    /\ \A i \in 1..Len(operations) : operations[i].kind = "connect"
    /\ ConnectRequests # {}

\* both awaited requests of the operation have settled
Settled(op) == op.pc \notin {"operation", "status"}

\* C24: once the request of a connect or disconnect and the status query
\* that follows it have settled, in success or in failure, the timer that
\* closes the modal and resets the prompt is scheduled or has fired.
C24_SettledOperationCloses ==
    \A i \in 1..Len(operations) :
        Settled(operations[i]) => operations[i].pc \in {"timer", "closed"}

\* the body spells "connected" in some mix of upper and lower case
SaysConnected(body) == body \in {"connected", "Connected", "CONNECTED"}

\* C28: a status query that completes sets `connected` to whether the body
\* is 'connected' ignoring case, one that fails leaves `connected` as it
\* was, and the open modal offers Disconnect exactly when `connected` is
\* true and Connect otherwise.
C28_ConnectedFollowsStatus ==
    /\ [](visible /\ Len(operations) < MaxOperations =>
            /\ (ENABLED DisconnectClick) <=> connected
            /\ (ENABLED ConnectClick) <=> ~connected)
    /\ [][\A i \in 1..Len(operations) :
            /\ (operations[i].pc = "status" /\ operations'[i].pc = "timer")
                  => connected' = SaysConnected(operations'[i].status)
            /\ (operations[i].pc = "status" /\ operations'[i].pc = "rejected")
                  => connected' = connected]_vars

\* a body in capitals was taken as connected and Disconnect is on offer
C28_Witness ==
    /\ connected
    /\ visible
    /\ ENABLED DisconnectClick
    /\ \E i \in 1..Len(operations) :
          operations[i].pc = "timer" /\ operations[i].status = "CONNECTED"

SudoRequests == {r \in requests : r.url = "/store_sudo_password"}

\* C29: no request carries the sudo password while the OS is not mac, no
\* request carries an empty password, no entry of the connection log is the
\* password, and the modal's password field is emptied when a store
\* succeeds and left as it is when a store fails.
C29_PasswordOnlyOnMac ==
    /\ [](/\ currentOs # "mac" => SudoRequests = {}
          /\ \A r \in SudoRequests : r.sudo_password # ""
          /\ \A pw \in Passwords \ {""} : pw \notin logs)
    /\ [][\A i \in 1..Len(storing) :
            /\ (storing[i] = "sent" /\ storing'[i] = "stored") => sudoPassword' = ""
            /\ (storing[i] = "sent" /\ storing'[i] = "failed")
                  => sudoPassword' = sudoPassword]_vars

\* after a failed store left the field filled, a second one succeeded
C29_Witness ==
    /\ storing = <<"failed", "stored">>
    /\ sudoPassword = ""
    /\ SudoRequests # {}
    /\ "Stored sudo password" \in logs

InFlight == {i \in 1..Len(calls) : calls[i].pc = "inflight"}

\* C25: with the servers list as the only caller, at most one server-list
\* fetch is in flight and isLoading is true exactly while one is, so a
\* Refresh click during a fetch starts nothing and isLoading is false again
\* once the fetch has ended in success or in failure.
C25_OneFetchInFlight ==
    /\ Cardinality(InFlight) <= 1
    /\ isLoading <=> InFlight # {}

\* a third fetch is in flight after one that failed and one that succeeded
C25_Witness ==
    /\ Len(calls) = 3
    /\ calls[1].pc = "rejected"
    /\ calls[2].pc = "resolved"
    /\ InFlight = {3}
    /\ isLoading

\* C26: `loading` is true exactly while a fetchServers call is in flight,
\* and once every call has completed `servers` is the response of the call
\* that was issued last.
C26_LatestCallWins ==
    /\ loading <=> InFlight # {}
    /\ (calls # <<>> /\ InFlight = {} /\ calls[Len(calls)].pc = "resolved")
          => servers = calls[Len(calls)].response

\* C27: a fetchServers call sets `error` to null when it starts; when its
\* request succeeds `servers` becomes the response, `error` is null and
\* `loading` false; when it fails `servers` is unchanged, `error` is the
\* failure message and `loading` false.
C27_FetchServersHandlesErrors ==
    [][/\ Len(calls') > Len(calls) => error' = "null"
       /\ \A i \in 1..Len(calls) :
            /\ (calls[i].pc = "inflight" /\ calls'[i].pc = "resolved")
                  => (servers' = calls'[i].response /\ error' = "null" /\ ~loading')
            /\ (calls[i].pc = "inflight" /\ calls'[i].pc = "rejected")
                  => (servers' = servers /\ error' \in {"HTTP error 500", "HTTP error: Network Error"} /\ ~loading')]_vars

OpenDropdowns == {d \in Dropdowns : isOpen[d]}

\* C30: at most one dropdown is open at any time; a step that opens a
\* dropdown leaves every other one closed, and a click outside every
\* dropdown leaves all of them closed.
C30_OneDropdownOpen ==
    /\ [](Cardinality(OpenDropdowns) <= 1)
    /\ [][/\ \A d \in Dropdowns :
               (~isOpen[d] /\ isOpen'[d]) => \A e \in Dropdowns \ {d} : ~isOpen'[e]
          /\ DocumentClick => OpenDropdowns' = {}]_vars

\* the second dropdown is open alone, after an option of the first one was
\* selected, although both drew the same id
C30_Witness ==
    /\ OpenDropdowns = {2}
    /\ modelValue[1] # ""
    /\ dropdownId[1] = dropdownId[2]

====
